---- MODULE Spec2Model ----
(***************************************************************************)
(* Model of backend/server.py: the bakery back end (clientes, productos,   *)
(* pedidos, dashboard) over three MongoDB collections.                     *)
(*                                                                         *)
(* Every `await db....` of a handler is one atomic store operation; the    *)
(* synchronous code of the handler up to its next await belongs to the     *)
(* same step.  Handlers of different requests interleave at the awaits.    *)
(* Money is counted in whole units (precio, subtotal and total are         *)
(* integers here), quantities are integers as PedidoCreate documents.      *)
(***************************************************************************)
EXTENDS Integers, Sequences, FiniteSets, TLC

\* ---------------------------------------------------------------- bounds
MaxClientes == 1
MaxProductos == 1
MaxPedidos == 2
MaxLineas == 2
\* requests served in one behaviour of the concurrent specification
MaxPeticiones == 5

\* Requests in flight at the same time (one asyncio task each).
Procs == {"t1", "t2"}

\* Ids a request may name: every id the store can hand out and, for products, one
\* more that is never stored.
ClienteIds == 1..MaxClientes
ProductoIds == 1..(MaxProductos + 1)
PedidoIds == 1..MaxPedidos

\* ------------------------------------------------------ request payloads
None == "None"

\* ClienteCreate bodies.
ClienteDatos ==
    { [nombre |-> "Ana", telefono |-> "111", email |-> "ana@pan.es", direccion |-> None],
      [nombre |-> "Juan", telefono |-> "222", email |-> None, direccion |-> "Calle 1"] }

\* ProductoCreate bodies.
ProductoDatos ==
    { [nombre |-> "Barra", precio |-> 2, categoria |-> "Pan", descripcion |-> None,
       disponible |-> TRUE],
      [nombre |-> "Tarta", precio |-> 3, categoria |-> "Pasteleria", descripcion |-> "nata",
       disponible |-> FALSE] }

Cantidades == {2}

\* The dicts of PedidoCreate.productos: {producto_id, cantidad}.
Items == [producto_id : ProductoIds, cantidad : Cantidades]

RECURSIVE SeqsHasta(_, _)
SeqsHasta(S, n) ==
    IF n = 0 THEN {<<>>}
    ELSE LET menores == SeqsHasta(S, n - 1)
         IN  menores \cup {Append(s, x) : s \in {t \in menores : Len(t) = n - 1}, x \in S}

ListasDeItems == SeqsHasta(Items, MaxLineas)

\* fecha_entrega_estimada as the request sends it: a text, one character per element.
FechaTextos ==
    { <<"2","0","2","5","-","0","1","-","1","5">>,
      <<"2","0","2","5","-","0","2","-","3","0">>,
      <<"1","5","/","0","1","/","2","0","2","5">> }

PedidoCreates == [cliente_id : ClienteIds, fecha_entrega_estimada : FechaTextos,
                  productos : ListasDeItems]

\* Bodies of PUT /pedidos/{id}/estado: a dict, with or without the key "estado".
EstadoCuerpos ==
    { [estado |-> e] : e \in {"pendiente", "en_proceso", "completado", "cancelado",
                              "invalid_status"} }
    \cup { [status |-> "completado"] }

\* ------------------------------------- datetime.strptime(texto, "%Y-%m-%d")
DigVal == ("0" :> 0) @@ ("1" :> 1) @@ ("2" :> 2) @@ ("3" :> 3) @@ ("4" :> 4) @@
          ("5" :> 5) @@ ("6" :> 6) @@ ("7" :> 7) @@ ("8" :> 8) @@ ("9" :> 9)

Digitos == DOMAIN DigVal

RECURSIVE Numero(_)
Numero(s) == IF s = <<>> THEN 0 ELSE 10 * Numero(SubSeq(s, 1, Len(s) - 1)) + DigVal[s[Len(s)]]

\* %Y: \d\d\d\d
EsAnio(s) == Len(s) = 4 /\ \A i \in 1..4 : s[i] \in Digitos

\* %m: 1[0-2]|0[1-9]|[1-9]
EsMes(s) ==
    \/ Len(s) = 2 /\ s[1] = "1" /\ s[2] \in {"0", "1", "2"}
    \/ Len(s) = 2 /\ s[1] = "0" /\ s[2] \in Digitos \ {"0"}
    \/ Len(s) = 1 /\ s[1] \in Digitos \ {"0"}

\* %d: 3[01]|[12]\d|0[1-9]|[1-9]| [1-9]
EsDia(s) ==
    \/ Len(s) = 2 /\ s[1] = "3" /\ s[2] \in {"0", "1"}
    \/ Len(s) = 2 /\ s[1] \in {"1", "2"} /\ s[2] \in Digitos
    \/ Len(s) = 2 /\ s[1] = "0" /\ s[2] \in Digitos \ {"0"}
    \/ Len(s) = 1 /\ s[1] \in Digitos \ {"0"}
    \/ Len(s) = 2 /\ s[1] = " " /\ s[2] \in Digitos \ {"0"}

Bisiesto(y) == (y % 4 = 0 /\ y % 100 # 0) \/ y % 400 = 0

DiasEnMes(y, m) ==
    IF m = 2 THEN (IF Bisiesto(y) THEN 29 ELSE 28)
    ELSE IF m \in {4, 6, 9, 11} THEN 30 ELSE 31

\* The ways the whole text splits as <year>-<month>-<day>; the format's regular
\* expression has to consume the text to its end.
Cortes(t) ==
    { c \in [lm : {1, 2}, ld : {1, 2}] :
        /\ Len(t) = 6 + c.lm + c.ld
        /\ EsAnio(SubSeq(t, 1, 4))
        /\ t[5] = "-"
        /\ EsMes(SubSeq(t, 6, 5 + c.lm))
        /\ t[6 + c.lm] = "-"
        /\ EsDia(SubSeq(t, 7 + c.lm, 6 + c.lm + c.ld)) }

SinEspacio(s) == IF s[1] = " " THEN SubSeq(s, 2, Len(s)) ELSE s

FechaDe(t, c) ==
    [anio |-> Numero(SubSeq(t, 1, 4)),
     mes |-> Numero(SubSeq(t, 6, 5 + c.lm)),
     dia |-> Numero(SinEspacio(SubSeq(t, 7 + c.lm, 6 + c.lm + c.ld)))]

\* datetime(anio, mes, dia) accepts the date
FechaValida(f) == f.anio >= 1 /\ f.dia <= DiasEnMes(f.anio, f.mes)

\* ValueError: the text does not match the format, or names no calendar day
ValueError(t) == \A c \in Cortes(t) : ~FechaValida(FechaDe(t, c))

Strptime(t) == FechaDe(t, CHOOSE c \in Cortes(t) : FechaValida(FechaDe(t, c)))

\* ------------------------------------------------------------ the state
VARIABLES
    clientes,     \* db.clientes: stored id -> document
    productos,    \* db.productos
    pedidos,      \* db.pedidos
    sig,          \* next fresh id of each collection (uuid4 never repeats)
    reloj,        \* datetime.utcnow()
    procs,        \* each task: idle, or its position in a handler with its locals
    ultima,       \* the request answered by the last step and its response, if any
    cupo          \* requests still to be accepted; negative: any number

vars == <<clientes, productos, pedidos, sig, reloj, procs, ultima, cupo>>

Idle == [pc |-> "idle"]

\* no response
Nada == [op |-> "ninguna", codigo |-> 0]

Vacio ==
    /\ clientes = <<>>
    /\ productos = <<>>
    /\ pedidos = <<>>
    /\ sig = [clientes |-> 1, productos |-> 1, pedidos |-> 1]
    /\ reloj = 1
    /\ procs = [p \in Procs |-> Idle]
    /\ ultima = Nada

Init == Vacio /\ cupo = MaxPeticiones

\* ------------------------------------------------- the collection (motor)
\* insert_one
InsertOne(col, doc) == (doc.id :> doc) @@ col

\* find_one({"id": id}) finds a document
Hay(col, id) == id \in DOMAIN col

\* find_one({"id": id}): the document or None
FindOne(col, id) == IF Hay(col, id) THEN col[id] ELSE None

\* update_one with a replacement document in place of {"$set": campos}
UpdateOne_reemplaza(col, id, campos) ==
    IF id \in DOMAIN col THEN [col EXCEPT ![id] = campos] ELSE col

\* update_one({"id": id}, {"$set": campos}): no document matched, nothing written
UpdateOne(col, id, campos) ==
    IF id \in DOMAIN col
    THEN [col EXCEPT ![id] =
            [f \in DOMAIN col[id] \cup DOMAIN campos |->
                IF f \in DOMAIN campos THEN campos[f] ELSE col[id][f]]]
    ELSE col

\* delete_one({"id": id}).deleted_count
DeletedCount(col, id) == IF id \in DOMAIN col THEN 1 ELSE 0

\* delete_many({}) in place of delete_one({"id": id})
DeleteOne_todos(col, id) == IF id \in DOMAIN col THEN <<>> ELSE col

\* the collection after delete_one({"id": id})
DeleteOne(col, id) == [i \in DOMAIN col \ {id} |-> col[i]]

\* count_documents({"estado": e})
CountEstado(col, e) == Cardinality({i \in DOMAIN col : col[i].estado = e})

\* count_documents({})
CountDocuments(col) == Cardinality(DOMAIN col)

\* -------------------------------------------------------------- responses
\* A response leaves the task idle.
Responder(p, op, codigo, extra) ==
    /\ procs' = [procs EXCEPT ![p] = Idle]
    /\ ultima' = [op |-> op, codigo |-> codigo] @@ extra

Libre(p) == procs[p].pc = "idle"

\* A task that is not inside a handler takes the next request.
Acepta(p) ==
    /\ Libre(p)
    /\ cupo # 0
    /\ cupo' = IF cupo < 0 THEN cupo ELSE cupo - 1

\* A task inside a handler resumes at the await it stopped at.
En(p, pc) ==
    /\ procs[p].pc = pc
    /\ UNCHANGED cupo

\* The handler stops at its next await with these locals; no response yet.
Sigue(p, locales) ==
    /\ procs' = [procs EXCEPT ![p] = locales]
    /\ ultima' = Nada

\* HTTPException(status_code=codigo, detail=detail); detail is the tuple of the
\* pieces of its text
HTTPException(p, op, peticion, codigo, detail) ==
    Responder(p, op, codigo, [peticion |-> peticion, detail |-> detail])

\* The handler returns normally.
Ok(p, op, peticion, cuerpo) ==
    Responder(p, op, 200, [peticion |-> peticion, cuerpo |-> cuerpo])

\* An exception that is no HTTPException: FastAPI answers 500.
Error500(p, op, peticion, excepcion) ==
    Responder(p, op, 500, [peticion |-> peticion, excepcion |-> excepcion])

\* ===================================================== ENDPOINTS CLIENTES
\* Cliente(**cliente_dict): a fresh id and the time of registration
Cliente(cliente) ==
    [id |-> sig.clientes, nombre |-> cliente.nombre, telefono |-> cliente.telefono,
     email |-> cliente.email, direccion |-> cliente.direccion, fecha_registro |-> reloj]

crear_cliente(p, cliente) ==
    /\ Acepta(p)
    /\ sig.clientes <= MaxClientes
    /\ clientes' = InsertOne(clientes, Cliente(cliente))
    /\ sig' = [sig EXCEPT !.clientes = @ + 1]
    /\ reloj' = reloj + 1
    /\ Ok(p, "crear_cliente", cliente, Cliente(cliente))
    /\ UNCHANGED <<productos, pedidos>>

obtener_cliente(p, cliente_id) ==
    /\ Acepta(p)
    /\ IF ~Hay(clientes, cliente_id)
       THEN HTTPException(p, "obtener_cliente", cliente_id, 404, <<"Cliente no encontrado">>)
       ELSE Ok(p, "obtener_cliente", cliente_id, clientes[cliente_id])
    /\ UNCHANGED <<clientes, productos, pedidos, sig, reloj>>

\* line 103: the existence check
actualizar_cliente(p, cliente_id, cliente) ==
    /\ Acepta(p)
    /\ IF ~Hay(clientes, cliente_id)
       THEN HTTPException(p, "actualizar_cliente", cliente_id, 404, <<"Cliente no encontrado">>)
       ELSE Sigue(p, [pc |-> "actualizar_cliente_update", cliente_id |-> cliente_id,
                         cliente |-> cliente])
    /\ UNCHANGED <<clientes, productos, pedidos, sig, reloj>>

\* update_one with the $set of a whole new Cliente(**cliente_dict) but its id
actualizar_cliente_update_registro(p) ==
    /\ En(p, "actualizar_cliente_update")
    /\ clientes' = UpdateOne(clientes, procs[p].cliente_id,
                             [f \in DOMAIN procs[p].cliente \cup {"fecha_registro"} |->
                                 IF f = "fecha_registro" THEN reloj ELSE procs[p].cliente[f]])
    /\ Sigue(p, [procs[p] EXCEPT !.pc = "actualizar_cliente_find"])
    /\ UNCHANGED <<productos, pedidos, sig, reloj>>

\* line 108: update_one
actualizar_cliente_update(p) ==
    /\ En(p, "actualizar_cliente_update")
    /\ clientes' = UpdateOne(clientes, procs[p].cliente_id, procs[p].cliente)
    /\ Sigue(p, [procs[p] EXCEPT !.pc = "actualizar_cliente_find"])
    /\ UNCHANGED <<productos, pedidos, sig, reloj>>

\* lines 110-111: the re-read; Cliente(**None) raises TypeError
actualizar_cliente_find(p) ==
    /\ En(p, "actualizar_cliente_find")
    /\ IF ~Hay(clientes, procs[p].cliente_id)
       THEN Error500(p, "actualizar_cliente", procs[p].cliente_id, "TypeError")
       ELSE Ok(p, "actualizar_cliente", procs[p].cliente_id, clientes[procs[p].cliente_id])
    /\ UNCHANGED <<clientes, productos, pedidos, sig, reloj>>

eliminar_cliente(p, cliente_id) ==
    /\ Acepta(p)
    /\ clientes' = DeleteOne(clientes, cliente_id)
    /\ IF DeletedCount(clientes, cliente_id) = 0
       THEN HTTPException(p, "eliminar_cliente", cliente_id, 404, <<"Cliente no encontrado">>)
       ELSE Ok(p, "eliminar_cliente", cliente_id, "Cliente eliminado exitosamente")
    /\ UNCHANGED <<productos, pedidos, sig, reloj>>

\* ==================================================== ENDPOINTS PRODUCTOS
\* Producto(**producto_dict): a fresh id
Producto(producto) ==
    [id |-> sig.productos, nombre |-> producto.nombre, precio |-> producto.precio,
     categoria |-> producto.categoria, descripcion |-> producto.descripcion,
     disponible |-> producto.disponible]

crear_producto(p, producto) ==
    /\ Acepta(p)
    /\ sig.productos <= MaxProductos
    /\ productos' = InsertOne(productos, Producto(producto))
    /\ sig' = [sig EXCEPT !.productos = @ + 1]
    /\ Ok(p, "crear_producto", producto, Producto(producto))
    /\ UNCHANGED <<clientes, pedidos, reloj>>

obtener_producto(p, producto_id) ==
    /\ Acepta(p)
    /\ IF ~Hay(productos, producto_id)
       THEN HTTPException(p, "obtener_producto", producto_id, 404, <<"Producto no encontrado">>)
       ELSE Ok(p, "obtener_producto", producto_id, productos[producto_id])
    /\ UNCHANGED <<clientes, productos, pedidos, sig, reloj>>

\* line 143: the existence check
actualizar_producto(p, producto_id, producto) ==
    /\ Acepta(p)
    /\ IF ~Hay(productos, producto_id)
       THEN HTTPException(p, "actualizar_producto", producto_id, 404, <<"Producto no encontrado">>)
       ELSE Sigue(p, [pc |-> "actualizar_producto_update", producto_id |-> producto_id,
                         producto |-> producto])
    /\ UNCHANGED <<clientes, productos, pedidos, sig, reloj>>

\* line 148: update_one
actualizar_producto_update(p) ==
    /\ En(p, "actualizar_producto_update")
    /\ productos' = UpdateOne(productos, procs[p].producto_id, procs[p].producto)
    /\ Sigue(p, [procs[p] EXCEPT !.pc = "actualizar_producto_find"])
    /\ UNCHANGED <<clientes, pedidos, sig, reloj>>

\* lines 150-151: the re-read; Producto(**None) raises TypeError
actualizar_producto_find(p) ==
    /\ En(p, "actualizar_producto_find")
    /\ IF ~Hay(productos, procs[p].producto_id)
       THEN Error500(p, "actualizar_producto", procs[p].producto_id, "TypeError")
       ELSE Ok(p, "actualizar_producto", procs[p].producto_id,
               productos[procs[p].producto_id])
    /\ UNCHANGED <<clientes, productos, pedidos, sig, reloj>>

eliminar_producto(p, producto_id) ==
    /\ Acepta(p)
    /\ productos' = DeleteOne(productos, producto_id)
    /\ IF DeletedCount(productos, producto_id) = 0
       THEN HTTPException(p, "eliminar_producto", producto_id, 404, <<"Producto no encontrado">>)
       ELSE Ok(p, "eliminar_producto", producto_id, "Producto eliminado exitosamente")
    /\ UNCHANGED <<clientes, pedidos, sig, reloj>>

\* ====================================================== ENDPOINTS PEDIDOS
\* crear_pedido calls in flight that still may insert
Creando == {q \in Procs : procs[q].pc \in {"crear_pedido_producto", "crear_pedido_insert"}}

PorInsertar == Cardinality(Creando)

RECURSIVE SumLineas(_, _)
SumLineas(largo, S) ==
    IF S = {} THEN 0
    ELSE LET x == CHOOSE y \in S : TRUE IN largo[x] + SumLineas(largo, S \ {x})

\* order lines the store holds, and those of the orders being composed
LineasEnUso ==
    SumLineas([i \in DOMAIN pedidos |-> Len(pedidos[i].productos)], DOMAIN pedidos)
    + SumLineas([q \in Creando |-> Len(procs[q].pedido.productos)], Creando)

\* where the loop of line 179 stands with i lines processed
TrasLinea(pedido, i) ==
    IF i >= Len(pedido.productos) THEN "crear_pedido_insert" ELSE "crear_pedido_producto"

\* lines 165-177: the customer, the date, the empty accumulators
crear_pedido(p, pedido) ==
    /\ Acepta(p)
    /\ sig.pedidos + PorInsertar <= MaxPedidos
    /\ LineasEnUso + Len(pedido.productos) <= MaxLineas
    /\ IF ~Hay(clientes, pedido.cliente_id)
       THEN HTTPException(p, "crear_pedido", pedido, 404, <<"Cliente no encontrado">>)
       ELSE IF ValueError(pedido.fecha_entrega_estimada)
       THEN HTTPException(p, "crear_pedido", pedido, 400,
                          <<"Formato de fecha invalido. Use YYYY-MM-DD">>)
       ELSE Sigue(p, [pc |-> TrasLinea(pedido, 0),
                         pedido |-> pedido,
                         cliente |-> clientes[pedido.cliente_id],
                         fecha_entrega |-> Strptime(pedido.fecha_entrega_estimada),
                         i |-> 0,
                         productos_detalle |-> <<>>,
                         total |-> 0])
    /\ UNCHANGED <<clientes, productos, pedidos, sig, reloj>>

\* DetalleProducto with the quantity left out of the subtotal
DetalleProducto_sin_cantidad(item, producto) ==
    [producto_id |-> item.producto_id,
     nombre_producto |-> producto.nombre,
     cantidad |-> item.cantidad,
     precio_unitario |-> producto.precio,
     subtotal |-> producto.precio]

\* lines 184-191: DetalleProducto for one item and the product read for it
DetalleProducto(item, producto) ==
    [producto_id |-> item.producto_id,
     nombre_producto |-> producto.nombre,
     cantidad |-> item.cantidad,
     precio_unitario |-> producto.precio,
     subtotal |-> producto.precio * item.cantidad]

\* line 193
Acumular(total, subtotal) == total + subtotal

\* Pedido(...) with another default for the status
Pedido_estado_libre(l) ==
    [id |-> sig.pedidos,
     cliente_id |-> l.pedido.cliente_id,
     nombre_cliente |-> l.cliente.nombre,
     fecha_pedido |-> reloj,
     fecha_entrega_estimada |-> l.fecha_entrega,
     estado |-> "pending",
     productos |-> l.productos_detalle,
     total |-> l.total]

\* lines 196-202: Pedido(...), with the defaults of the class
Pedido(l) ==
    [id |-> sig.pedidos,
     cliente_id |-> l.pedido.cliente_id,
     nombre_cliente |-> l.cliente.nombre,
     fecha_pedido |-> reloj,
     fecha_entrega_estimada |-> l.fecha_entrega,
     estado |-> "pendiente",
     productos |-> l.productos_detalle,
     total |-> l.total]

\* the loop persisting what it composed so far before it raises the 404
crear_pedido_producto_parcial(p) ==
    /\ En(p, "crear_pedido_producto")
    /\ LET l == procs[p]
           item == l.pedido.productos[l.i + 1]
       IN  IF ~Hay(productos, item.producto_id)
           THEN /\ HTTPException(p, "crear_pedido", l.pedido, 404,
                                 <<"Producto", item.producto_id, "no encontrado">>)
                /\ pedidos' = InsertOne(pedidos, Pedido(l))
                /\ sig' = [sig EXCEPT !.pedidos = @ + 1]
                /\ reloj' = reloj + 1
           ELSE LET detalle == DetalleProducto(item, productos[item.producto_id])
                IN  /\ Sigue(p, [l EXCEPT !.pc = TrasLinea(l.pedido, l.i + 1),
                                          !.i = l.i + 1,
                                          !.productos_detalle = Append(@, detalle),
                                          !.total = Acumular(@, detalle.subtotal)])
                    /\ UNCHANGED <<pedidos, sig, reloj>>
    /\ UNCHANGED <<clientes, productos>>

\* the loop taking the items from the end of the list
crear_pedido_producto_inverso(p) ==
    /\ En(p, "crear_pedido_producto")
    /\ LET l == procs[p]
           item == l.pedido.productos[Len(l.pedido.productos) - l.i]
       IN  IF ~Hay(productos, item.producto_id)
           THEN HTTPException(p, "crear_pedido", l.pedido, 404,
                              <<"Producto", item.producto_id, "no encontrado">>)
           ELSE LET detalle == DetalleProducto(item, productos[item.producto_id])
                IN  Sigue(p, [l EXCEPT !.pc = TrasLinea(l.pedido, l.i + 1),
                                          !.i = l.i + 1,
                                          !.productos_detalle = Append(@, detalle),
                                          !.total = Acumular(@, detalle.subtotal)])
    /\ UNCHANGED <<clientes, productos, pedidos, sig, reloj>>

\* lines 179-193: one turn of the loop
crear_pedido_producto(p) ==
    /\ En(p, "crear_pedido_producto")
    /\ LET l == procs[p]
           item == l.pedido.productos[l.i + 1]
       IN  IF ~Hay(productos, item.producto_id)
           THEN HTTPException(p, "crear_pedido", l.pedido, 404,
                              <<"Producto", item.producto_id, "no encontrado">>)
           ELSE LET detalle == DetalleProducto(item, productos[item.producto_id])
                IN  Sigue(p, [l EXCEPT !.pc = TrasLinea(l.pedido, l.i + 1),
                                          !.i = l.i + 1,
                                          !.productos_detalle = Append(@, detalle),
                                          !.total = Acumular(@, detalle.subtotal)])
    /\ UNCHANGED <<clientes, productos, pedidos, sig, reloj>>

\* lines 196-205
crear_pedido_insert(p) ==
    /\ En(p, "crear_pedido_insert")
    /\ pedidos' = InsertOne(pedidos, Pedido(procs[p]))
    /\ sig' = [sig EXCEPT !.pedidos = @ + 1]
    /\ reloj' = reloj + 1
    /\ Ok(p, "crear_pedido", procs[p].pedido, Pedido(procs[p]))
    /\ UNCHANGED <<clientes, productos>>

obtener_pedido(p, pedido_id) ==
    /\ Acepta(p)
    /\ IF ~Hay(pedidos, pedido_id)
       THEN HTTPException(p, "obtener_pedido", pedido_id, 404, <<"Pedido no encontrado">>)
       ELSE Ok(p, "obtener_pedido", pedido_id, pedidos[pedido_id])
    /\ UNCHANGED <<clientes, productos, pedidos, sig, reloj>>

\* the membership check letting the unknown status through
estados_validos_de_mas ==
    {"pendiente", "en_proceso", "completado", "cancelado", "invalid_status"}

estados_validos == {"pendiente", "en_proceso", "completado", "cancelado"}

\* lines 221-227: the existence check, the key of the body, the membership check
actualizar_estado_pedido(p, pedido_id, estado) ==
    /\ Acepta(p)
    /\ LET peticion == [pedido_id |-> pedido_id, estado |-> estado]
       IN  IF ~Hay(pedidos, pedido_id)
           THEN HTTPException(p, "actualizar_estado_pedido", peticion, 404,
                              <<"Pedido no encontrado">>)
           ELSE IF "estado" \notin DOMAIN estado
           THEN Error500(p, "actualizar_estado_pedido", peticion, "KeyError")
           ELSE IF estado.estado \notin estados_validos
           THEN HTTPException(p, "actualizar_estado_pedido", peticion, 400,
                              <<"Estado no valido">>)
           ELSE Sigue(p, [pc |-> "actualizar_estado_pedido_update",
                             pedido_id |-> pedido_id, estado |-> estado])
    /\ UNCHANGED <<clientes, productos, pedidos, sig, reloj>>

\* lines 229-230: update_one, then the acknowledgement whatever it matched
actualizar_estado_pedido_update(p) ==
    /\ En(p, "actualizar_estado_pedido_update")
    /\ pedidos' = UpdateOne(pedidos, procs[p].pedido_id, [estado |-> procs[p].estado.estado])
    /\ Ok(p, "actualizar_estado_pedido",
          [pedido_id |-> procs[p].pedido_id, estado |-> procs[p].estado],
          "Estado actualizado exitosamente")
    /\ UNCHANGED <<clientes, productos, sig, reloj>>

eliminar_pedido(p, pedido_id) ==
    /\ Acepta(p)
    /\ pedidos' = DeleteOne(pedidos, pedido_id)
    /\ IF DeletedCount(pedidos, pedido_id) = 0
       THEN HTTPException(p, "eliminar_pedido", pedido_id, 404, <<"Pedido no encontrado">>)
       ELSE Ok(p, "eliminar_pedido", pedido_id, "Pedido eliminado exitosamente")
    /\ UNCHANGED <<clientes, productos, sig, reloj>>

\* ==================================================== ENDPOINTS DASHBOARD
\* to_list(1000): at most that many documents, in the order of insertion
ListCap == 1000

ToList(col, ids) ==
    IF Cardinality(ids) <= ListCap THEN ids
    ELSE {i \in ids : Cardinality({j \in ids : j < i}) < ListCap}

\* the sum of v, veces[v] times each, over the values v of S
RECURSIVE SumaPonderada(_, _)
SumaPonderada(S, veces) ==
    IF S = {} THEN 0
    ELSE LET v == CHOOSE x \in S : TRUE
         IN  v * veces[v] + SumaPonderada(S \ {v}, veces)

\* sum(pedido["total"] for pedido in ...), the documents grouped by their total
SumTotal(col, ids) ==
    LET valores == {col[i].total : i \in ids}
    IN  SumaPonderada(valores, [v \in valores |-> Cardinality({i \in ids : col[i].total = v})])

\* the revenue summed without the filter on estado
Ingresos_sin_filtro(col) == SumTotal(col, ToList(col, DOMAIN col))

\* lines 253-254
Ingresos(col) == SumTotal(col, ToList(col, {i \in DOMAIN col : col[i].estado = "completado"}))

Contado(p, pc, campo, valor) ==
    /\ Sigue(p, [f \in DOMAIN procs[p] \cup {campo} |->
                    IF f = "pc" THEN pc ELSE IF f = campo THEN valor ELSE procs[p][f]])
    /\ UNCHANGED <<clientes, productos, pedidos, sig, reloj>>

\* line 243
obtener_estadisticas(p) ==
    /\ Acepta(p)
    /\ Contado(p, "estadisticas_productos", "total_clientes", CountDocuments(clientes))

\* line 244
estadisticas_productos(p) ==
    /\ En(p, "estadisticas_productos")
    /\ Contado(p, "estadisticas_pedidos", "total_productos", CountDocuments(productos))

\* line 245
estadisticas_pedidos(p) ==
    /\ En(p, "estadisticas_pedidos")
    /\ Contado(p, "estadisticas_pendientes", "total_pedidos", CountDocuments(pedidos))

\* line 248
estadisticas_pendientes(p) ==
    /\ En(p, "estadisticas_pendientes")
    /\ Contado(p, "estadisticas_en_proceso", "pedidos_pendientes",
               CountEstado(pedidos, "pendiente"))

\* line 249
estadisticas_en_proceso(p) ==
    /\ En(p, "estadisticas_en_proceso")
    /\ Contado(p, "estadisticas_completados", "pedidos_en_proceso",
               CountEstado(pedidos, "en_proceso"))

\* line 250
estadisticas_completados(p) ==
    /\ En(p, "estadisticas_completados")
    /\ Contado(p, "estadisticas_ingresos", "pedidos_completados",
               CountEstado(pedidos, "completado"))

\* lines 253-264
estadisticas_ingresos(p) ==
    /\ En(p, "estadisticas_ingresos")
    /\ Ok(p, "obtener_estadisticas", None,
          [total_clientes |-> procs[p].total_clientes,
           total_productos |-> procs[p].total_productos,
           total_pedidos |-> procs[p].total_pedidos,
           pedidos_pendientes |-> procs[p].pedidos_pendientes,
           pedidos_en_proceso |-> procs[p].pedidos_en_proceso,
           pedidos_completados |-> procs[p].pedidos_completados,
           ingresos_totales |-> Ingresos(pedidos)])
    /\ UNCHANGED <<clientes, productos, pedidos, sig, reloj>>

\* ============================================================ the system
Clientes(p) ==
    \/ \E c \in ClienteDatos : crear_cliente(p, c)
    \/ \E id \in ClienteIds : obtener_cliente(p, id)
    \/ \E id \in ClienteIds, c \in ClienteDatos : actualizar_cliente(p, id, c)
    \/ actualizar_cliente_update(p)
    \/ actualizar_cliente_find(p)
    \/ \E id \in ClienteIds : eliminar_cliente(p, id)

Productos(p) ==
    \/ \E d \in ProductoDatos : crear_producto(p, d)
    \/ \E id \in ProductoIds : obtener_producto(p, id)
    \/ \E id \in ProductoIds, d \in ProductoDatos : actualizar_producto(p, id, d)
    \/ actualizar_producto_update(p)
    \/ actualizar_producto_find(p)
    \/ \E id \in ProductoIds : eliminar_producto(p, id)

Pedidos(p) ==
    \/ \E pedido \in PedidoCreates : crear_pedido(p, pedido)
    \/ crear_pedido_producto(p)
    \/ crear_pedido_insert(p)
    \/ \E id \in PedidoIds : obtener_pedido(p, id)
    \/ \E id \in PedidoIds, e \in EstadoCuerpos : actualizar_estado_pedido(p, id, e)
    \/ actualizar_estado_pedido_update(p)
    \/ \E id \in PedidoIds : eliminar_pedido(p, id)

Dashboard(p) ==
    \/ obtener_estadisticas(p)
    \/ estadisticas_productos(p)
    \/ estadisticas_pedidos(p)
    \/ estadisticas_pendientes(p)
    \/ estadisticas_en_proceso(p)
    \/ estadisticas_completados(p)
    \/ estadisticas_ingresos(p)

Paso(p) == Clientes(p) \/ Productos(p) \/ Pedidos(p) \/ Dashboard(p)

\* Two tasks serve requests concurrently, MaxPeticiones requests in all.
Next == \E p \in Procs : Paso(p)

Spec == Init /\ [][Next]_vars

\* One request at a time, any number of them: a single task serves them all.
InitSec == Vacio /\ cupo = 0 - 1

NextSec == Paso("t1")

SpecSec == InitSec /\ [][NextSec]_vars

\* The dashboard of a shop that has served about ListCap orders: one customer, one
\* product, and orders of one line each, all completado but for the last one.
PedidoServido(i, estado) ==
    [id |-> i,
     cliente_id |-> 1,
     nombre_cliente |-> "Ana",
     fecha_pedido |-> i + 1,
     fecha_entrega_estimada |-> Strptime(<<"2","0","2","5","-","0","1","-","1","5">>),
     estado |-> estado,
     productos |-> <<[producto_id |-> 1, nombre_producto |-> "Barra", cantidad |-> 2,
                      precio_unitario |-> 2, subtotal |-> 4]>>,
     total |-> 4]

InitLleno ==
    \E n \in (ListCap - 1)..(ListCap + 2), e \in estados_validos :
        /\ clientes = (1 :> [id |-> 1, nombre |-> "Ana", telefono |-> "111",
                             email |-> "ana@pan.es", direccion |-> None,
                             fecha_registro |-> 1])
        /\ productos = (1 :> [id |-> 1, nombre |-> "Barra", precio |-> 2, categoria |-> "Pan",
                              descripcion |-> None, disponible |-> TRUE])
        /\ pedidos = [i \in 1..n |-> PedidoServido(i, IF i = n THEN e ELSE "completado")]
        /\ sig = [clientes |-> 2, productos |-> 2, pedidos |-> n + 1]
        /\ reloj = n + 2
        /\ procs = [p \in Procs |-> Idle]
        /\ ultima = Nada
        /\ cupo = 0 - 1

NextLleno == Dashboard("t1")

SpecLleno == InitLleno /\ [][NextLleno]_vars

\* The customer records of a shop in use: two customers registered one after the
\* other, one product, and one order of the first customer; two tasks serve any
\* number of requests on the customers, naming the stored ids and a fresh one.
InitFichas ==
    /\ clientes = (1 :> [id |-> 1, nombre |-> "Ana", telefono |-> "111",
                         email |-> "ana@pan.es", direccion |-> None, fecha_registro |-> 1])
                  @@ (2 :> [id |-> 2, nombre |-> "Juan", telefono |-> "222",
                            email |-> None, direccion |-> "Calle 1", fecha_registro |-> 2])
    /\ productos = (1 :> [id |-> 1, nombre |-> "Barra", precio |-> 2, categoria |-> "Pan",
                          descripcion |-> None, disponible |-> TRUE])
    /\ pedidos = (1 :> [PedidoServido(1, "pendiente") EXCEPT !.fecha_pedido = 3])
    /\ sig = [clientes |-> 3, productos |-> 2, pedidos |-> 2]
    /\ reloj = 4
    /\ procs = [p \in Procs |-> Idle]
    /\ ultima = Nada
    /\ cupo = 0 - 1

NextFichas ==
    \E p \in Procs :
        \/ \E id \in 1..sig.clientes : obtener_cliente(p, id)
        \/ \E id \in 1..sig.clientes, c \in ClienteDatos : actualizar_cliente(p, id, c)
        \/ actualizar_cliente_update(p)
        \/ actualizar_cliente_find(p)
        \/ \E id \in 1..sig.clientes : eliminar_cliente(p, id)

SpecFichas == InitFichas /\ [][NextFichas]_vars

\* Composing orders in a shop with one customer and two products: one request at a
\* time, orders of up to MaxLineas lines naming the two products and an id never
\* stored, in either quantity, with products and orders deleted in between.
CantidadesLineas == {1, 2}

PedidosLineas ==
    [cliente_id : {1},
     fecha_entrega_estimada : {<<"2","0","2","5","-","0","1","-","1","5">>},
     productos : SeqsHasta([producto_id : 1..3, cantidad : CantidadesLineas], MaxLineas)]

InitLineas ==
    /\ clientes = (1 :> [id |-> 1, nombre |-> "Ana", telefono |-> "111",
                         email |-> "ana@pan.es", direccion |-> None, fecha_registro |-> 1])
    /\ productos = (1 :> [id |-> 1, nombre |-> "Barra", precio |-> 2, categoria |-> "Pan",
                          descripcion |-> None, disponible |-> TRUE])
                   @@ (2 :> [id |-> 2, nombre |-> "Tarta", precio |-> 3,
                             categoria |-> "Pasteleria", descripcion |-> "nata",
                             disponible |-> FALSE])
    /\ pedidos = <<>>
    /\ sig = [clientes |-> 2, productos |-> 3, pedidos |-> 1]
    /\ reloj = 2
    /\ procs = [p \in Procs |-> Idle]
    /\ ultima = Nada
    /\ cupo = 0 - 1

NextLineas ==
    \/ \E pedido \in PedidosLineas : crear_pedido("t1", pedido)
    \/ crear_pedido_producto("t1")
    \/ crear_pedido_insert("t1")
    \/ \E id \in 1..sig.productos : eliminar_producto("t1", id)
    \/ \E id \in PedidoIds : eliminar_pedido("t1", id)

SpecLineas == InitLineas /\ [][NextLineas]_vars

\* ================================================================ claims
RECURSIVE SumaSubtotales(_)
SumaSubtotales(lineas) ==
    IF lineas = <<>> THEN 0 ELSE Head(lineas).subtotal + SumaSubtotales(Tail(lineas))

Almacenados == {pedidos[i] : i \in DOMAIN pedidos}

\* C1: in every reachable state every stored order has, in each line, subtotal =
\* cantidad * precio_unitario, and total = the sum of the subtotals of its lines.
C1_TotalEsSumaDeSubtotales ==
    \A o \in Almacenados :
        /\ \A k \in 1..Len(o.productos) :
              o.productos[k].subtotal = o.productos[k].cantidad * o.productos[k].precio_unitario
        /\ o.total = SumaSubtotales(o.productos)

\* C1 witness: a stored order of two lines priced differently (the product was
\* updated between the two reads) that has left pendiente.
C1_Witness ==
    \E o \in Almacenados :
        /\ Len(o.productos) = 2
        /\ o.productos[1].precio_unitario # o.productos[2].precio_unitario
        /\ o.total = 10
        /\ o.estado = "completado"

\* the step just taken answered a request of this operation
Responde(op) == ultima'.op = op

\* C2: crear_pedido writes the order collection once when it succeeds (its steps
\* before the response write nothing, the answering step inserts exactly the order
\* it returns) and leaves it as it was when it fails.
C2_UnaEscrituraSoloSiExito ==
    [][/\ \A p \in Procs :
            procs'[p].pc \in {"crear_pedido_producto", "crear_pedido_insert"}
            /\ procs'[p] # procs[p]
            => pedidos' = pedidos
       /\ Responde("crear_pedido") =>
            IF ultima'.codigo = 200
            THEN /\ ultima'.cuerpo.id \notin DOMAIN pedidos
                 /\ DOMAIN pedidos' = DOMAIN pedidos \cup {ultima'.cuerpo.id}
                 /\ pedidos'[ultima'.cuerpo.id] = ultima'.cuerpo
                 /\ \A i \in DOMAIN pedidos : pedidos'[i] = pedidos[i]
            ELSE pedidos' = pedidos]_vars

\* C2 witness: crear_pedido has just failed on the second line of its request, whose
\* first line names a stored product, with an order already in the store.
C2_Witness ==
    /\ ultima.op = "crear_pedido"
    /\ ultima.codigo = 404
    /\ Len(ultima.peticion.productos) = 2
    /\ Hay(productos, ultima.peticion.productos[1].producto_id)
    /\ ultima.detail = <<"Producto", ultima.peticion.productos[2].producto_id, "no encontrado">>
    /\ ultima.peticion.productos[2].producto_id # ultima.peticion.productos[1].producto_id
    /\ DOMAIN pedidos # {}

SinEstado(o) == [f \in DOMAIN o \ {"estado"} |-> o[f]]

\* C3: no step changes anything but estado in an order that stays stored.
C3_SoloCambiaElEstado ==
    [][\A i \in DOMAIN pedidos \cap DOMAIN pedidos' :
            SinEstado(pedidos'[i]) = SinEstado(pedidos[i])]_vars

\* C3 witness: a stored order that is no longer pendiente, whose customer has been
\* renamed and whose product has been repriced since it was composed.
C3_Witness ==
    \E o \in Almacenados :
        /\ o.estado # "pendiente"
        /\ Len(o.productos) > 0
        /\ Hay(clientes, o.cliente_id)
        /\ clientes[o.cliente_id].nombre # o.nombre_cliente
        /\ Hay(productos, o.productos[1].producto_id)
        /\ productos[o.productos[1].producto_id].precio # o.productos[1].precio_unitario
        /\ productos[o.productos[1].producto_id].nombre # o.productos[1].nombre_producto

\* C4: actualizar_estado_pedido on a stored order with a status string outside the
\* four known ones answers 400 and changes no stored record.
C4_EstadoDesconocido ==
    [][/\ Responde("actualizar_estado_pedido")
       /\ Hay(pedidos, ultima'.peticion.pedido_id)
       /\ "estado" \in DOMAIN ultima'.peticion.estado
       /\ ultima'.peticion.estado.estado \notin
            {"pendiente", "en_proceso", "completado", "cancelado"}
       => /\ ultima'.codigo = 400
          /\ UNCHANGED <<clientes, productos, pedidos>>]_vars

\* C4 witness: the 400 has just been answered for an order that is completado.
C4_Witness ==
    /\ ultima.op = "actualizar_estado_pedido"
    /\ ultima.codigo = 400
    /\ Hay(pedidos, ultima.peticion.pedido_id)
    /\ pedidos[ultima.peticion.pedido_id].estado = "completado"

SumaTotales(S) ==
    LET valores == {o.total : o \in S}
    IN  SumaPonderada(valores, [v \in valores |-> Cardinality({o \in S : o.total = v})])

ConEstado(e) == {o \in Almacenados : o.estado = e}

\* C5: with one request at a time, the answer of obtener_estadisticas counts the
\* stored orders, those of each of the three reported statuses, and sums total over
\* the completado orders only.
C5_EstadisticasSecuenciales ==
    ultima.op = "obtener_estadisticas" =>
        /\ ultima.cuerpo.total_pedidos = Cardinality(Almacenados)
        /\ ultima.cuerpo.pedidos_pendientes = Cardinality(ConEstado("pendiente"))
        /\ ultima.cuerpo.pedidos_en_proceso = Cardinality(ConEstado("en_proceso"))
        /\ ultima.cuerpo.pedidos_completados = Cardinality(ConEstado("completado"))
        /\ ultima.cuerpo.ingresos_totales = SumaTotales(ConEstado("completado"))

\* C5 witness: statistics answered over two orders with money in both, one of them
\* completado and the other not.
C5_Witness ==
    /\ ultima.op = "obtener_estadisticas"
    /\ ultima.cuerpo.total_pedidos = 2
    /\ ultima.cuerpo.pedidos_completados = 1
    /\ ultima.cuerpo.ingresos_totales > 0
    /\ \E o \in Almacenados : o.estado = "cancelado" /\ o.total > 0

\* C6: the numbers obtener_estadisticas answers belong to one state of the order
\* collection; in particular the three status counts never add up to more than
\* total_pedidos.
C6_UnaSolaVista ==
    ultima.op = "obtener_estadisticas" =>
        ultima.cuerpo.pedidos_pendientes + ultima.cuerpo.pedidos_en_proceso
            + ultima.cuerpo.pedidos_completados <= ultima.cuerpo.total_pedidos

\* C7: every customer, product and order operation ends in success, 404 or 400; in
\* particular actualizar_cliente and actualizar_producto racing with a delete of
\* their id end in 404.
C7_SoloExitoNotFoundOInvalido ==
    ultima.op \in {"actualizar_cliente", "actualizar_producto"} =>
        ultima.codigo \in {200, 404, 400}

\* what a delete of id does to col, col2 being the collection after the step
BorraSolo(col, col2, id) ==
    IF Hay(col, id)
    THEN /\ ultima'.codigo = 200
         /\ DOMAIN col2 = DOMAIN col \ {id}
         /\ \A i \in DOMAIN col2 : col2[i] = col[i]
    ELSE /\ ultima'.codigo = 404
         /\ col2 = col

\* C8: in each collection a delete of an id that is not stored answers 404 and
\* changes nothing; a delete of a stored id answers success and removes that
\* record alone, the other two collections staying as they were; an id once handed
\* out and no longer stored is never stored again, and a get of an id that is not
\* stored answers 404.
C8_Eliminar ==
    [][/\ Responde("eliminar_cliente") =>
            BorraSolo(clientes, clientes', ultima'.peticion)
            /\ UNCHANGED <<productos, pedidos>>
       /\ Responde("eliminar_producto") =>
            BorraSolo(productos, productos', ultima'.peticion)
            /\ UNCHANGED <<clientes, pedidos>>
       /\ Responde("eliminar_pedido") =>
            BorraSolo(pedidos, pedidos', ultima'.peticion)
            /\ UNCHANGED <<clientes, productos>>
       /\ \A i \in 1..(sig.clientes - 1) : ~Hay(clientes, i) => ~Hay(clientes', i)
       /\ \A i \in 1..(sig.productos - 1) : ~Hay(productos, i) => ~Hay(productos', i)
       /\ \A i \in 1..(sig.pedidos - 1) : ~Hay(pedidos, i) => ~Hay(pedidos', i)
       /\ Responde("obtener_cliente") /\ ~Hay(clientes, ultima'.peticion)
            => ultima'.codigo = 404
       /\ Responde("obtener_producto") /\ ~Hay(productos, ultima'.peticion)
            => ultima'.codigo = 404
       /\ Responde("obtener_pedido") /\ ~Hay(pedidos, ultima'.peticion)
            => ultima'.codigo = 404]_vars

\* C8 witness: a get answered 404 for a customer that was stored and deleted, while
\* an order naming that customer and a deleted product is still stored beside
\* another order.
C8_Witness ==
    /\ ultima.op = "obtener_cliente"
    /\ ultima.codigo = 404
    /\ ultima.peticion < sig.clientes
    /\ Cardinality(DOMAIN pedidos) = 2
    /\ \E o \in Almacenados :
          /\ o.cliente_id = ultima.peticion
          /\ Len(o.productos) > 0
          /\ o.productos[1].producto_id < sig.productos
          /\ ~Hay(productos, o.productos[1].producto_id)

\* C9: every stored order has at least one line.
C9_LineasNoVacias == \A o \in Almacenados : Len(o.productos) > 0

\* C10: the status of every stored order is pendiente, en_proceso, completado or
\* cancelado.
C10_EstadoValido ==
    \A o \in Almacenados :
        o.estado \in {"pendiente", "en_proceso", "completado", "cancelado"}

\* C10 witness: two stored orders, one still pendiente as composed, one cancelado.
C10_Witness ==
    /\ \E o \in Almacenados : o.estado = "pendiente"
    /\ \E o \in Almacenados : o.estado = "cancelado"

\* C11: every crear_pedido call whose fecha_entrega_estimada does not parse as
\* YYYY-MM-DD is answered 400, whatever its customer id and its lines are.
C11_FechaInvalidaEs400 ==
    ultima.op = "crear_pedido" /\ ValueError(ultima.peticion.fecha_entrega_estimada)
        => ultima.codigo = 400

\* C11, with the customer stored: the malformed date of a call that names a stored
\* customer is answered 400.
C11_FechaInvalidaClienteAlmacenado ==
    [][/\ Responde("crear_pedido")
       /\ ValueError(ultima'.peticion.fecha_entrega_estimada)
       /\ Hay(clientes, ultima'.peticion.cliente_id)
       => /\ ultima'.codigo = 400
          /\ UNCHANGED <<clientes, productos, pedidos>>]_vars

\* the step is the update_one of an actualizar_cliente call of task p
EscribeCliente(p) ==
    /\ procs[p].pc = "actualizar_cliente_update"
    /\ procs'[p].pc = "actualizar_cliente_find"

\* the customer record id after an update with the request body c
Actualizado(viejo, c) ==
    [id |-> viejo.id, nombre |-> c.nombre, telefono |-> c.telefono, email |-> c.email,
     direccion |-> c.direccion, fecha_registro |-> viejo.fecha_registro]

\* C12: the write of actualizar_cliente on a stored customer replaces nombre,
\* telefono, email and direccion with the request's values and keeps id and
\* fecha_registro, changes no other customer, no product and no order (and writes
\* nothing when the customer is no longer stored); no step at all changes the id or
\* the fecha_registro of a customer that stays stored; the call's other steps write
\* nothing.
C12_ActualizarClienteMarco ==
    [][/\ \A i \in DOMAIN clientes \cap DOMAIN clientes' :
            /\ clientes'[i].id = clientes[i].id
            /\ clientes'[i].fecha_registro = clientes[i].fecha_registro
       /\ \A p \in Procs : EscribeCliente(p) =>
            LET id == procs[p].cliente_id
            IN  /\ UNCHANGED <<productos, pedidos>>
                /\ DOMAIN clientes' = DOMAIN clientes
                /\ \A j \in DOMAIN clientes \ {id} : clientes'[j] = clientes[j]
                /\ Hay(clientes, id) =>
                     clientes'[id] = Actualizado(clientes[id], procs[p].cliente)
       /\ Responde("actualizar_cliente") => UNCHANGED <<clientes, productos, pedidos>>]_vars

\* C12 witness: the update of the first customer has just been answered with the new
\* name and the registration time of the creation, after the second customer was
\* updated too; the order still carries the name it was composed with.
C12_Witness ==
    /\ ultima.op = "actualizar_cliente"
    /\ ultima.codigo = 200
    /\ ultima.peticion = 1
    /\ ultima.cuerpo.nombre = "Juan"
    /\ ultima.cuerpo.id = 1
    /\ ultima.cuerpo.fecha_registro = 1
    /\ Hay(clientes, 2)
    /\ clientes[2].nombre = "Ana"
    /\ clientes[2].fecha_registro = 2
    /\ pedidos[1].nombre_cliente = "Ana"

\* the step is the update_one of an actualizar_estado_pedido call of task p
EscribeEstado(p) == procs[p].pc = "actualizar_estado_pedido_update" /\ procs'[p].pc = "idle"

\* C13: the write of actualizar_estado_pedido answers success only when the order is
\* stored at that moment, and then the order carries the new status; when a
\* concurrent eliminar_pedido has removed the order, the call is answered 404.
C13_ExitoSoloSiAlmacenado ==
    [][\A p \in Procs : EscribeEstado(p) =>
            LET id == procs[p].pedido_id
            IN  IF Hay(pedidos, id)
                THEN /\ ultima'.codigo = 200
                     /\ Hay(pedidos', id)
                     /\ pedidos'[id].estado = procs[p].estado.estado
                ELSE ultima'.codigo = 404]_vars

\* C13, the part on re-creation: the write of actualizar_estado_pedido stores no
\* order that was not stored before it.
C13_NoRecrea ==
    [][\A p \in Procs : EscribeEstado(p) => DOMAIN pedidos' = DOMAIN pedidos]_vars

\* line k of the response or of the locals is line k of the request
MismaLinea(detalle, item) ==
    detalle.producto_id = item.producto_id /\ detalle.cantidad = item.cantidad

\* C14: with one request at a time, each turn of the loop of crear_pedido looks up
\* the next line of the request, the lines before it having all been found and kept
\* in the request's order; when its product is absent the call is answered 404
\* naming that id (the first absent one in input order) and the handler ends there;
\* the order persisted and returned by a successful call has the request's lines in
\* the request's order.
C14_PrimerProductoAusente ==
    [][\A p \in Procs :
        /\ procs[p].pc = "crear_pedido_producto" /\ procs'[p] # procs[p] =>
             LET l == procs[p]
                 lineas == l.pedido.productos
                 k == l.i + 1
             IN  /\ Len(l.productos_detalle) = l.i
                 /\ \A j \in 1..l.i :
                       /\ MismaLinea(l.productos_detalle[j], lineas[j])
                       /\ Hay(productos, lineas[j].producto_id)
                 /\ IF Hay(productos, lineas[k].producto_id)
                    THEN /\ procs'[p].i = k
                         /\ Len(procs'[p].productos_detalle) = k
                         /\ MismaLinea(procs'[p].productos_detalle[k], lineas[k])
                    ELSE /\ procs'[p].pc = "idle"
                         /\ ultima'.op = "crear_pedido"
                         /\ ultima'.codigo = 404
                         /\ ultima'.detail =
                              <<"Producto", lineas[k].producto_id, "no encontrado">>
        /\ procs[p].pc = "crear_pedido_insert" /\ procs'[p] # procs[p] =>
             LET lineas == procs[p].pedido.productos
             IN  /\ ultima'.codigo = 200
                 /\ Len(ultima'.cuerpo.productos) = Len(lineas)
                 /\ \A j \in 1..Len(lineas) : MismaLinea(ultima'.cuerpo.productos[j], lineas[j])
                 /\ pedidos'[ultima'.cuerpo.id].productos = ultima'.cuerpo.productos]_vars

\* C14 witness: a request of two lines naming two different products, both deleted,
\* the larger id first, has just been answered 404 naming the id of its first line,
\* after an earlier call had composed an order.
C14_Witness ==
    /\ ultima.op = "crear_pedido"
    /\ ultima.codigo = 404
    /\ Len(ultima.peticion.productos) = 2
    /\ ultima.peticion.productos[1].producto_id = 2
    /\ ultima.peticion.productos[2].producto_id = 1
    /\ ~Hay(productos, 1)
    /\ ~Hay(productos, 2)
    /\ ultima.detail = <<"Producto", 2, "no encontrado">>
    /\ sig.pedidos > 1

====
